---- MODULE Spec2Model ----
(***************************************************************************)
(* Participant Directory (ParticipantsService, signal-based variant) and   *)
(* the remote participants API it talks to.                                *)
(*                                                                         *)
(* Every service method runs in two steps: the call itself (which sets the *)
(* loading signal, clears the error signal and sends the request) and the  *)
(* completion handler of its pipe (tap on success, catchError on failure). *)
(* Between the two the request travels to the server, is processed there   *)
(* and the response travels back; any number of operations may be in       *)
(* flight at once.                                                         *)
(***************************************************************************)
EXTENDS Integers, Sequences, FiniteSets, TLC

\* ------------------------------------------------------------------ bounds
MaxOps == 3     \* service calls issued in one run
MaxId == 2      \* identifiers the server may assign
MaxVal == 2     \* distinct contents of a participant's editable fields

Ids == 1..MaxId
Vals == 1..MaxVal

\* ------------------------------------------------------------ data model
\* string | null: the empty tuple is null, <<s>> is the string s
Null == <<>>
Some(s) == <<s>>

\* a Participant as returned by the API: server-assigned id and the
\* client-editable content
Participant(i, v) == [id |-> i, v |-> v]

\* HttpErrorResponse as handleError reads it
\*   event       error.error instanceof ErrorEvent
\*   status      error.status
\*   errors      error.error?.errors: Null, or <<map>> with map the sequence
\*               of the map's values (each a sequence of messages)
\*   bodyMessage error.error?.message ("" when absent)
\*   message     error.message
HttpErrorResponse(ev, st, errs, bm, m) ==
  [event |-> ev, status |-> st, errors |-> errs, bodyMessage |-> bm, message |-> m]

\* transport failures: no HTTP response reached the client
ErrorEventFailure == HttpErrorResponse(TRUE, 0, Null, "Network down", "Http failure response: 0 Unknown Error")
ProgressEventFailure == HttpErrorResponse(FALSE, 0, Null, "", "Http failure response: 0 Unknown Error")
TransportFailures == {ErrorEventFailure, ProgressEventFailure}

\* responses of the server with an error status
StatusError(st) == HttpErrorResponse(FALSE, st, Null, "", "Http failure response: " \o ToString(st))
ValidationErrors == << <<"The name field is required.">>, <<"The email must be valid.">> >>
ValidationFailure == HttpErrorResponse(FALSE, 422, <<ValidationErrors>>, "The given data was invalid.", "Http failure response: 422")

\* the failures the error callback of an operation may be handed
Failures(kind) ==
  TransportFailures
    \cup (IF kind \in {"get", "update", "remove"} THEN {StatusError(404)} ELSE {})
    \cup (IF kind \in {"create", "update"} THEN {ValidationFailure} ELSE {})

\* ----------------------------------------------------------- handleError
RECURSIVE flat(_)
\* Array.prototype.flat() on an array of arrays
flat(arrays) == IF arrays = <<>> THEN <<>> ELSE Head(arrays) \o flat(Tail(arrays))

RECURSIVE join(_, _)
\* Array.prototype.join(sep)
join(strings, sep) ==
  IF strings = <<>> THEN ""
  ELSE IF Len(strings) = 1 THEN strings[1]
  ELSE strings[1] \o sep \o join(Tail(strings), sep)

\* the message of the Error the caller's error callback receives
handleError(error) ==
  IF error.event THEN "Error: " \o error.bodyMessage
  ELSE CASE error.status = 400 -> "Bad request. Please check your input."
         [] error.status = 401 -> "Unauthorized. Please check your API key."
         [] error.status = 403 -> "Forbidden. You do not have permission to perform this action."
         [] error.status = 404 -> "Resource not found."
         [] error.status = 422 ->
              IF error.errors # Null
              THEN "Validation error: " \o join(flat(error.errors[1]), ", ")
              ELSE "Validation error. Please check your input."
         [] error.status = 500 -> "Server error. Please try again later."
         [] OTHER -> "Error " \o ToString(error.status) \o ": "
                       \o (IF error.bodyMessage # "" THEN error.bodyMessage ELSE error.message)

\* ------------------------------------------------------------------ state
VARIABLES
  participantsSignal,  \* the snapshot: sequence of Participant
  loadingSignal,       \* BOOLEAN
  errorSignal,         \* string | null
  server,              \* the records the remote API holds, in its order
  nextId,              \* the identifier the server assigns next
  inflight,            \* the operations issued and not yet resolved
  issued,              \* number of service calls made so far
  log,                 \* history: the resolutions that have just happened (the
                       \* last steps, at most two, oldest first); empty after any
                       \* other step
  before,              \* history: the signals just before the last of them
  last                 \* history: what the last step was

\* the dashboard (DashboardComponent)
VARIABLES
  stats,               \* the Statistics last computed from the snapshot, or null
  distribution,        \* the result of the last calculateSkillDistribution call, or null
  legacyStats          \* legacy dashboard: stats as last computed, or null

\* the HTTP client and its interceptor
VARIABLES
  environment,         \* the configuration: apiBaseUrl, apiKeyHeaderName, apiKeyValue
  request,             \* the request handed to the interceptor, or null
  forwarded            \* the request the interceptor passed on, or null

\* error reporting (handleError of either service)
VARIABLES
  thrown               \* the Error the failed call ended with, or null

\* the list view (ParticipantsListComponent of the participants feature)
VARIABLES
  searchQuery,         \* the search text
  dataSource,          \* dataSource.data: the rows of the table
  loaded,              \* history: the rows of the last successful load, or null
                       \* (null again once a delete has changed the snapshot)
  variant,             \* which variant of the views is shown: "feature" or "legacy"
  dialog,              \* the participant the open confirmation dialog asks about, or null
  result,              \* what the last closed dialog gave afterClosed: true, false or undefined (null)
  isLoading,           \* legacy list view: isLoading
  errorMessage,        \* legacy list view: errorMessage
  followUp             \* history: the reload the last successful delete started
                       \* and the identifier deleted, or null

\* the record of what the Directory has answered
VARIABLES
  listSucceeded,       \* history: a list() has succeeded
  anyFailed            \* history: an operation has failed

\* the participant form (ParticipantFormComponent)
VARIABLES
  routeId,             \* the id parameter of the route, or null
  isEditMode,          \* isEditMode
  participantId,       \* participantId: a number or null
  formLoading,         \* isLoading of the form
  isSubmitting,        \* legacy form: isSubmitting
  participantForm,     \* participantForm.value, or null before the form is built
  currentParticipant,  \* the participant last loaded into the form, or null
  navigated,           \* the router has left the form
  submits,             \* history: the number of valid submits
  formErrorMessage     \* legacy form: errorMessage

\* the state of the service apart from the snapshot
service == <<loadingSignal, errorSignal, server, nextId, inflight, issued, log, before, last>>
\* the state of the dashboard
dashboard == <<stats, distribution, legacyStats>>
\* the state of the HTTP client
client == <<environment, request, forwarded>>
\* the state of error reporting
errors == <<thrown>>
\* the state of the list view
listView == <<searchQuery, dataSource, loaded, variant, dialog, result, isLoading, errorMessage,
             followUp>>
\* what the Directory has answered so far
audit == <<listSucceeded, anyFailed>>
\* the state of the participant form
form == <<routeId, isEditMode, participantId, formLoading, isSubmitting, participantForm,
         currentParticipant, navigated, submits, formErrorMessage>>
\* the state outside the service
views == <<dashboard, client, errors, listView, audit, form>>
\* the state outside the service and outside one view
offDashboard == <<client, errors, listView, audit, form>>
offClient == <<dashboard, errors, listView, audit, form>>
offErrors == <<dashboard, client, listView, audit, form>>
offListView == <<dashboard, client, errors, audit, form>>
offAudit == <<dashboard, client, errors, listView, form>>
offForm == <<dashboard, client, errors, listView, audit>>

vars == <<participantsSignal, service, views>>

Unobserved == [participants |-> <<>>, loading |-> FALSE, error |-> Null]
signals == [participants |-> participantsSignal, loading |-> loadingSignal, error |-> errorSignal]

\* ------------------------------------------------------ sequence helpers
\* Array.prototype.findIndex(p => p.id === id), 0 standing for -1
findIndex(list, id) ==
  IF \E i \in 1..Len(list) : list[i].id = id
  THEN CHOOSE i \in 1..Len(list) : list[i].id = id /\ \A j \in 1..(i - 1) : list[j].id # id
  ELSE 0

RECURSIVE filterOut(_, _)
\* Array.prototype.filter(p => p.id !== id)
filterOut(list, id) ==
  IF list = <<>> THEN <<>>
  ELSE IF Head(list).id # id THEN <<Head(list)>> \o filterOut(Tail(list), id)
  ELSE filterOut(Tail(list), id)

\* updated = [...list]; updated[index] = p
replaceAt(list, index, p) == [list EXCEPT ![index] = p]

\* ----------------------------------------------------------------- Init
\* the configuration the application is built with
Environment(apiBaseUrl, apiKeyHeaderName, apiKeyValue) ==
  [apiBaseUrl |-> apiBaseUrl, apiKeyHeaderName |-> apiKeyHeaderName, apiKeyValue |-> apiKeyValue]

AuditIdle == listSucceeded = FALSE /\ anyFailed = FALSE

FormIdle ==
  /\ routeId = Null /\ isEditMode = FALSE /\ participantId = Null
  /\ formLoading = FALSE /\ isSubmitting = FALSE /\ participantForm = Null
  /\ currentParticipant = Null /\ navigated = FALSE /\ submits = 0
  /\ formErrorMessage = ""

\* the dashboard has computed nothing
DashboardIdle == stats = Null /\ distribution = Null /\ legacyStats = Null
\* no request has been made
ClientIdle ==
  /\ environment = Environment("/api", "X-API-KEY", "secret")
  /\ request = Null
  /\ forwarded = Null
\* no call has failed
ErrorsIdle == thrown = Null
\* the list view as constructed
ListViewIdle ==
  /\ searchQuery = ""
  /\ dataSource = <<>>
  /\ loaded = Null
  /\ dialog = Null
  /\ result = Null
  /\ isLoading = FALSE
  /\ errorMessage = ""
  /\ followUp = Null
\* the service as constructed, with no remote API behind it
ServiceUnused ==
  /\ loadingSignal = FALSE
  /\ errorSignal = Null
  /\ server = <<>>
  /\ nextId = 1
  /\ inflight = {}
  /\ issued = 0
  /\ log = <<>>
  /\ before = Unobserved
  /\ last = "init"

\* the service as constructed; the remote API already holds one record
Init ==
  /\ participantsSignal = <<>>
  /\ loadingSignal = FALSE
  /\ errorSignal = Null
  /\ server = <<Participant(1, 1)>>
  /\ nextId = 2
  /\ inflight = {}
  /\ issued = 0
  /\ log = <<>>
  /\ before = Unobserved
  /\ last = "init"
  /\ DashboardIdle
  /\ ClientIdle
  /\ ErrorsIdle
  /\ variant = "feature"
  /\ ListViewIdle
  /\ AuditIdle
  /\ FormIdle

\* a step that resolves nothing
observe(step) == last' = step /\ log' = <<>> /\ before' = Unobserved

\* ------------------------------------------------------- signal setters
setLoading(loading) == loadingSignal' = loading
setError(error) == errorSignal' = error

\* --------------------------------------------------- issuing a request
\* an operation in flight: its place in issue order, what was asked, and
\* where the exchange stands ("sent": the server has not seen it; "ok": a
\* success response with this body is on its way; "failed": the exchange
\* has failed)
Request(kind, id, v) ==
  [n |-> issued + 1, kind |-> kind, id |-> id, v |-> v, phase |-> "sent", body |-> <<>>]

\* the head of every service method: setLoading(true); setError(null);
\* this.http.<verb>(...) subscribed by the caller
send(kind, id, v) ==
  /\ issued < MaxOps
  /\ setLoading(TRUE)
  /\ setError(Null)
  /\ inflight' = inflight \cup {Request(kind, id, v)}
  /\ issued' = issued + 1
  /\ observe("issue")
  /\ UNCHANGED <<participantsSignal, server, nextId>>

list == send("list", 0, 0)
get(id) == send("get", id, 0)
create(dto) == send("create", 0, dto)
update(id, dto) == send("update", id, dto)
remove(id) == send("remove", id, 0)
refresh == list

clearError ==
  /\ errorSignal # Null
  /\ setError(Null)
  /\ observe("clearError")
  /\ UNCHANGED <<participantsSignal, loadingSignal, server, nextId, inflight, issued>>

\* ------------------------------------------------------- the remote API
Known(id) == \E i \in 1..Len(server) : server[i].id = id

respond(o, phase, body) ==
  inflight' = (inflight \ {o}) \cup {[o EXCEPT !.phase = phase, !.body = body]}

\* GET {base}/participants
serverList(o) ==
  /\ o.kind = "list" /\ o.phase = "sent"
  /\ respond(o, "ok", server)
  /\ UNCHANGED <<server, nextId>>

\* GET {base}/participants/{id}, 404 if absent
serverGet(o) ==
  /\ o.kind = "get" /\ o.phase = "sent"
  /\ IF Known(o.id)
     THEN respond(o, "ok", <<server[findIndex(server, o.id)]>>)
     ELSE respond(o, "failed", <<>>)
  /\ UNCHANGED <<server, nextId>>

\* POST {base}/participants
serverCreate(o) ==
  /\ o.kind = "create" /\ o.phase = "sent"
  /\ nextId <= MaxId
  /\ server' = Append(server, Participant(nextId, o.v))
  /\ nextId' = nextId + 1
  /\ respond(o, "ok", <<Participant(nextId, o.v)>>)

\* PUT {base}/participants/{id}, 404 if absent
serverUpdate(o) ==
  /\ o.kind = "update" /\ o.phase = "sent"
  /\ IF Known(o.id)
     THEN /\ server' = replaceAt(server, findIndex(server, o.id), Participant(o.id, o.v))
          /\ respond(o, "ok", <<Participant(o.id, o.v)>>)
     ELSE /\ server' = server
          /\ respond(o, "failed", <<>>)
  /\ UNCHANGED nextId

\* DELETE {base}/participants/{id}, 404 if absent
serverDelete(o) ==
  /\ o.kind = "remove" /\ o.phase = "sent"
  /\ IF Known(o.id)
     THEN /\ server' = filterOut(server, o.id)
          /\ respond(o, "ok", <<>>)
     ELSE /\ server' = server
          /\ respond(o, "failed", <<>>)
  /\ UNCHANGED nextId

\* the exchange fails without effect on the server (the request is lost or
\* refused) or after it (the response is lost)
exchangeFails(o) ==
  /\ o.phase \in {"sent", "ok"}
  /\ respond(o, "failed", <<>>)
  /\ UNCHANGED <<server, nextId>>

Server(o) ==
  /\ \/ serverList(o) \/ serverGet(o) \/ serverCreate(o) \/ serverUpdate(o)
     \/ serverDelete(o) \/ exchangeFails(o)
  /\ observe("server")
  /\ UNCHANGED <<participantsSignal, loadingSignal, errorSignal, issued>>

\* ------------------------------------------------- completion handlers
\* what the caller's subscriber receives: the emitted value (as a sequence:
\* the list, the one record, or nothing for void) or the Error's message
Resolution(o, ok, value, message) ==
  [n |-> o.n, kind |-> o.kind, id |-> o.id, ok |-> ok, value |-> value, message |-> message]

lastTwo(entries) == IF Len(entries) > 2 THEN Tail(entries) ELSE entries

resolved(o, ok, value, message) ==
  /\ inflight' = inflight \ {o}
  /\ log' = lastTwo(log \o <<Resolution(o, ok, value, message)>>)
  /\ before' = signals
  /\ last' = "resolve"
  /\ UNCHANGED <<server, nextId, issued>>

\* mutant: the error path empties the snapshot
catchErrorDroppingSnapshot(o, text) ==
  /\ o.phase = "failed"
  /\ setLoading(FALSE)
  /\ setError(Some(text))
  /\ \E error \in Failures(o.kind) : resolved(o, FALSE, <<>>, handleError(error))
  /\ participantsSignal' = <<>>

\* catchError(error => { setLoading(false); setError(text); return handleError(error) })
catchError(o, text) ==
  /\ o.phase = "failed"
  /\ setLoading(FALSE)
  /\ setError(Some(text))
  /\ \E error \in Failures(o.kind) : resolved(o, FALSE, <<>>, handleError(error))
  /\ UNCHANGED participantsSignal

\* mutant: the success path clears the error signal
tapClearingError(o, next) ==
  /\ o.phase = "ok"
  /\ participantsSignal' = next
  /\ setLoading(FALSE)
  /\ setError(Null)
  /\ resolved(o, TRUE, o.body, "")

\* tap(value => { participantsSignal.set(next); setLoading(false) })
tap(o, next) ==
  /\ o.phase = "ok"
  /\ participantsSignal' = next
  /\ setLoading(FALSE)
  /\ resolved(o, TRUE, o.body, "")
  /\ UNCHANGED errorSignal

\* mutant: the response is merged into the snapshot
listNextMerging(currentParticipants, participants) == currentParticipants \o participants

listNext(currentParticipants, participants) == participants

getNext(currentParticipants) == currentParticipants

\* mutant: the new record is put first
createNextPrepending(currentParticipants, newParticipant) ==
  <<newParticipant>> \o currentParticipants

createNext(currentParticipants, newParticipant) ==
  currentParticipants \o <<newParticipant>>

\* mutant: the updated record is moved to the end
updateNextMovingLast(currentParticipants, id, updatedParticipant) ==
  IF findIndex(currentParticipants, id) # 0
  THEN filterOut(currentParticipants, id) \o <<updatedParticipant>>
  ELSE currentParticipants

\* mutant: a record the snapshot lacks is added (upsert)
updateNextUpserting(currentParticipants, id, updatedParticipant) ==
  LET index == findIndex(currentParticipants, id)
  IN  IF index # 0
      THEN replaceAt(currentParticipants, index, updatedParticipant)
      ELSE currentParticipants \o <<updatedParticipant>>

updateNext(currentParticipants, id, updatedParticipant) ==
  LET index == findIndex(currentParticipants, id)
  IN  IF index # 0
      THEN replaceAt(currentParticipants, index, updatedParticipant)
      ELSE currentParticipants

\* mutant: the filter's predicate is inverted
removeNextInverted(currentParticipants, id) ==
  SelectSeq(currentParticipants, LAMBDA p : p.id = id)

removeNext(currentParticipants, id) == filterOut(currentParticipants, id)

\* mutant: a response is dropped when a call issued later has already resolved
listTapByIssueOrder(o) ==
  /\ o.kind = "list"
  /\ tap(o, IF \E i \in 1..Len(log) : log[i].kind = "list" /\ log[i].ok /\ log[i].n > o.n
            THEN participantsSignal
            ELSE o.body)

listTap(o) == o.kind = "list" /\ tap(o, listNext(participantsSignal, o.body))
listCatchError(o) == o.kind = "list" /\ catchError(o, "Failed to load participants")

getTap(o) == o.kind = "get" /\ tap(o, getNext(participantsSignal))
getCatchError(o) == o.kind = "get" /\ catchError(o, "Failed to load participant")

createTap(o) == o.kind = "create" /\ tap(o, createNext(participantsSignal, o.body[1]))
createCatchError(o) == o.kind = "create" /\ catchError(o, "Failed to create participant")

\* mutant: a response is dropped when a call issued later has already resolved
updateTapByIssueOrder(o) ==
  /\ o.kind = "update"
  /\ tap(o, IF \E i \in 1..Len(log) : log[i].kind = "update" /\ log[i].ok /\ log[i].n > o.n
            THEN participantsSignal
            ELSE updateNext(participantsSignal, o.id, o.body[1]))

updateTap(o) == o.kind = "update" /\ tap(o, updateNext(participantsSignal, o.id, o.body[1]))
updateCatchError(o) == o.kind = "update" /\ catchError(o, "Failed to update participant")

removeTap(o) == o.kind = "remove" /\ tap(o, removeNext(participantsSignal, o.id))
removeCatchError(o) == o.kind = "remove" /\ catchError(o, "Failed to delete participant")

\* ----------------------------------------------------------------- Next
Next ==
  \/ list /\ UNCHANGED views
  \/ refresh /\ UNCHANGED views
  \/ \E id \in Ids : get(id) /\ UNCHANGED views
  \/ \E dto \in Vals : create(dto) /\ UNCHANGED views
  \/ \E id \in Ids, dto \in Vals : update(id, dto) /\ UNCHANGED views
  \/ \E id \in Ids : remove(id) /\ UNCHANGED views
  \/ clearError /\ UNCHANGED views
  \/ \E o \in inflight : Server(o) /\ UNCHANGED views
  \/ \E o \in inflight : listTap(o) /\ UNCHANGED views
  \/ \E o \in inflight : listCatchError(o) /\ UNCHANGED views
  \/ \E o \in inflight : getTap(o) /\ UNCHANGED views
  \/ \E o \in inflight : getCatchError(o) /\ UNCHANGED views
  \/ \E o \in inflight : createTap(o) /\ UNCHANGED views
  \/ \E o \in inflight : createCatchError(o) /\ UNCHANGED views
  \/ \E o \in inflight : updateTap(o) /\ UNCHANGED views
  \/ \E o \in inflight : updateCatchError(o) /\ UNCHANGED views
  \/ \E o \in inflight : removeTap(o) /\ UNCHANGED views
  \/ \E o \in inflight : removeCatchError(o) /\ UNCHANGED views

Spec == Init /\ [][Next]_vars

\* ================================================================ claims
\* the last step was a resolution
Resolved == log # <<>>
\* the resolution that has just happened
Ev == log[Len(log)]
\* the last two steps were resolutions: log[1], then log[2]
Pair == Len(log) = 2
Mutating == {"create", "update", "remove"}
HasId(participants, id) == \E i \in 1..Len(participants) : participants[i].id = id
FailureText ==
  [list |-> "Failed to load participants", get |-> "Failed to load participant",
   create |-> "Failed to create participant", update |-> "Failed to update participant",
   remove |-> "Failed to delete participant"]

\* C1: immediately after any Directory operation fails, the snapshot is the
\* one held just before the failure resolved, the caller has received an
\* error with a non-empty message, and the error indicator is non-null.
C1_FailureKeepsSnapshot ==
  (Resolved /\ ~Ev.ok) =>
    /\ participantsSignal = before.participants
    /\ Ev.message # ""
    /\ errorSignal # Null

\* a failure has just resolved over a loaded snapshot
C1_Witness ==
  /\ Resolved /\ ~Ev.ok /\ Ev.kind = "update"
  /\ before.participants # <<>>

\* C2: immediately after list() or refresh() succeeds, the snapshot is exactly
\* the server's response, in its order, whatever it held before.
C2_ListReplacesSnapshot ==
  (Resolved /\ Ev.ok /\ Ev.kind = "list") => participantsSignal = Ev.value

\* a list has just succeeded whose response lacks a record the snapshot held
C2_Witness ==
  /\ Resolved /\ Ev.ok /\ Ev.kind = "list"
  /\ \E i \in 1..Len(before.participants) :
       \A j \in 1..Len(Ev.value) : Ev.value[j] # before.participants[i]

\* C3: immediately after create succeeds, the snapshot is the previous one
\* with the returned record appended: the record is last, every earlier
\* record kept its position, and the length grew by one.
C3_CreateAppends ==
  (Resolved /\ Ev.ok /\ Ev.kind = "create") =>
    /\ Len(participantsSignal) = Len(before.participants) + 1
    /\ participantsSignal[Len(participantsSignal)] = Ev.value[1]
    /\ \A i \in 1..Len(before.participants) : participantsSignal[i] = before.participants[i]

\* a create has just succeeded on a non-empty snapshot
C3_Witness ==
  Resolved /\ Ev.ok /\ Ev.kind = "create" /\ before.participants # <<>>

\* C4: immediately after update(id, patch) succeeds on a snapshot that holds
\* the id, the returned record stands at the index the record had, every
\* other index is unchanged and so is the length.
C4_UpdateInPlace ==
  (Resolved /\ Ev.ok /\ Ev.kind = "update" /\ HasId(before.participants, Ev.id)) =>
    \E i \in 1..Len(before.participants) :
      /\ before.participants[i].id = Ev.id
      /\ Len(participantsSignal) = Len(before.participants)
      /\ participantsSignal[i] = Ev.value[1]
      /\ \A j \in 1..Len(before.participants) :
           j # i => participantsSignal[j] = before.participants[j]

\* an update has just changed the first of two records
C4_Witness ==
  /\ Resolved /\ Ev.ok /\ Ev.kind = "update"
  /\ Len(before.participants) = 2
  /\ before.participants[1].id = Ev.id
  /\ before.participants[1] # Ev.value[1]

\* C5: immediately after remove(id) succeeds, no record with that id is in
\* the snapshot and the others are all there, in their previous order.
C5_RemoveDropsId ==
  (Resolved /\ Ev.ok /\ Ev.kind = "remove") =>
    /\ ~HasId(participantsSignal, Ev.id)
    /\ participantsSignal = SelectSeq(before.participants, LAMBDA p : p.id # Ev.id)

\* a remove has just taken the first of two records out
C5_Witness ==
  /\ Resolved /\ Ev.ok /\ Ev.kind = "remove"
  /\ Len(before.participants) = 2
  /\ before.participants[1].id = Ev.id

\* C6 as claimed: every successful create, update or remove changes the
\* snapshot by exactly one record (one added, one replaced, one removed),
\* whether or not the snapshot holds the target id.
C6_ExactlyOneRecordChanged ==
  (Resolved /\ Ev.ok /\ Ev.kind \in Mutating) =>
    CASE Ev.kind = "create" ->
           /\ Len(participantsSignal) = Len(before.participants) + 1
           /\ SubSeq(participantsSignal, 1, Len(before.participants)) = before.participants
      [] Ev.kind = "update" ->
           /\ Len(participantsSignal) = Len(before.participants)
           /\ \E i \in 1..Len(before.participants) :
                /\ before.participants[i].id = Ev.id
                /\ participantsSignal[i] = Ev.value[1]
                /\ \A j \in 1..Len(before.participants) :
                     j # i => participantsSignal[j] = before.participants[j]
      [] Ev.kind = "remove" ->
           /\ Len(participantsSignal) = Len(before.participants) - 1
           /\ ~HasId(participantsSignal, Ev.id)

\* C6 as amended: a successful create adds exactly one record; a successful
\* update replaces the first record with the id when the snapshot holds the
\* id and changes nothing otherwise; a successful remove takes out every
\* record with the id (none when the snapshot does not hold it).
C6_ChangeBoundedByTarget ==
  (Resolved /\ Ev.ok /\ Ev.kind \in Mutating) =>
    CASE Ev.kind = "create" ->
           /\ Len(participantsSignal) = Len(before.participants) + 1
           /\ SubSeq(participantsSignal, 1, Len(before.participants)) = before.participants
      [] Ev.kind = "update" ->
           IF HasId(before.participants, Ev.id)
           THEN /\ Len(participantsSignal) = Len(before.participants)
                /\ \E i \in 1..Len(before.participants) :
                     /\ before.participants[i].id = Ev.id
                     /\ \A j \in 1..(i - 1) : before.participants[j].id # Ev.id
                     /\ participantsSignal[i] = Ev.value[1]
                     /\ \A j \in 1..Len(before.participants) :
                          j # i => participantsSignal[j] = before.participants[j]
           ELSE participantsSignal = before.participants
      [] Ev.kind = "remove" ->
           /\ participantsSignal = SelectSeq(before.participants, LAMBDA p : p.id # Ev.id)
           /\ Len(participantsSignal) =
                Len(before.participants)
                  - Cardinality({i \in 1..Len(before.participants) : before.participants[i].id = Ev.id})

\* an update has just succeeded on a loaded snapshot that does not hold its id
C6_Witness ==
  /\ Resolved /\ Ev.ok /\ Ev.kind = "update"
  /\ before.participants # <<>>
  /\ ~HasId(before.participants, Ev.id)

\* C7 as claimed: whenever an operation has been issued and has not yet
\* resolved, loading is true.
C7_LoadingWhileInFlight == inflight # {} => loadingSignal = TRUE

\* C8 as claimed: immediately after an operation completes successfully the
\* error indicator is null, and immediately after one fails it is non-null.
C8_ErrorSetOnCompletion ==
  Resolved => IF Ev.ok THEN errorSignal = Null ELSE errorSignal # Null

\* C8 as amended: an operation clears the error indicator when it is issued;
\* immediately after it fails the indicator holds its failure text;
\* immediately after it succeeds the indicator is what it was just before.
C8_ErrorClearedOnIssue ==
  /\ last = "issue" => errorSignal = Null
  /\ Resolved => IF Ev.ok THEN errorSignal = before.error
                 ELSE errorSignal = Some(FailureText[Ev.kind])

\* an operation has just succeeded while the indicator shows the failure of
\* another one
C8_Witness == Resolved /\ Ev.ok /\ errorSignal # Null

\* C9: when two updates of the same id, both in flight at once, have just
\* resolved successfully one after the other on a snapshot holding the id,
\* each put its own record at the id's index when it resolved, so the snapshot
\* holds there the record returned to the one that resolved last.
C9_LastResolvedUpdateWins ==
  (/\ Pair
   /\ log[1].kind = "update" /\ log[1].ok
   /\ log[2].kind = "update" /\ log[2].ok
   /\ log[1].id = log[2].id
   /\ HasId(before.participants, log[2].id)) =>
    LET i == CHOOSE i \in 1..Len(before.participants) :
               /\ before.participants[i].id = log[2].id
               /\ \A j \in 1..(i - 1) : before.participants[j].id # log[2].id
    IN  /\ before.participants[i] = log[1].value[1]
        /\ participantsSignal[i] = log[2].value[1]

\* the update that resolved last was issued first and returned another record
C9_Witness ==
  /\ Pair
  /\ log[1].kind = "update" /\ log[1].ok
  /\ log[2].kind = "update" /\ log[2].ok
  /\ log[1].id = log[2].id
  /\ HasId(before.participants, log[2].id)
  /\ log[2].n < log[1].n
  /\ log[1].value # log[2].value

\* C10: when list() calls in flight at once have just resolved successfully
\* one after the other, the snapshot is the response of the one that resolved
\* last, whichever was issued first.
C10_LastResolvedListWins ==
  (/\ Pair
   /\ log[1].kind = "list" /\ log[1].ok
   /\ log[2].kind = "list" /\ log[2].ok) =>
    /\ before.participants = log[1].value
    /\ participantsSignal = log[2].value

\* the list that resolved last was issued first and returned another response
C10_Witness ==
  /\ Pair
  /\ log[1].kind = "list" /\ log[1].ok
  /\ log[2].kind = "list" /\ log[2].ok
  /\ log[2].n < log[1].n
  /\ log[1].value # log[2].value

\* C25: no two records of the snapshot share an identifier (the server
\* assigns unique identifiers, a list response holds each at most once)
C25_SnapshotIdsUnique ==
  \A i, j \in 1..Len(participantsSignal) :
    i # j => participantsSignal[i].id # participantsSignal[j].id

\* ------------------------------------------------ the Directory, audited
\* The Directory with a record of what it has answered: whether a list()
\* has succeeded, and whether any operation has failed.

\* a step of the Directory that is neither: a call, the server's step, or
\* the success of a create, update or remove
unanswered == UNCHANGED <<audit, offAudit>>
\* a list() has succeeded
listAnswered == listSucceeded' = TRUE /\ UNCHANGED <<anyFailed, offAudit>>
\* an operation has failed
failed == anyFailed' = TRUE /\ UNCHANGED <<listSucceeded, offAudit>>

NextAudit ==
  \/ list /\ unanswered
  \/ \E dto \in Vals : create(dto) /\ unanswered
  \/ \E id \in Ids, dto \in Vals : update(id, dto) /\ unanswered
  \/ \E id \in Ids : remove(id) /\ unanswered
  \/ \E o \in inflight : Server(o) /\ unanswered
  \/ \E o \in inflight : listTap(o) /\ listAnswered
  \/ \E o \in inflight : listCatchError(o) /\ failed
  \/ \E o \in inflight : createTap(o) /\ unanswered
  \/ \E o \in inflight : createCatchError(o) /\ failed
  \/ \E o \in inflight : updateTap(o) /\ unanswered
  \/ \E o \in inflight : updateCatchError(o) /\ failed
  \/ \E o \in inflight : removeTap(o) /\ unanswered
  \/ \E o \in inflight : removeCatchError(o) /\ failed

SpecAudit == Init /\ [][NextAudit]_vars

\* the records a sequence holds
Records(participants) == {participants[i] : i \in 1..Len(participants)}

\* C26: when no operation is in flight, a list() has succeeded and nothing
\* has failed, the snapshot holds exactly the records the server holds
C26_QuiescentSnapshotIsServer ==
  (inflight = {} /\ listSucceeded /\ ~anyFailed) =>
    Records(participantsSignal) = Records(server)

\* ============================================================= dashboard
\* DashboardComponent: the statistics computed from the service's snapshot.
\* Averages are held in tenths (65 stands for 6.5), so the arithmetic is exact.
MaxParticipants == 3   \* records in a snapshot handed to the dashboard

SkillType ==
  {"python_skill", "angular_skill", "javascript_skill", "html_skill", "css_skill", "java_skill"}

\* the ratings fed to the dashboard: both ends of every bucket, "not
\* specified" and one value on either side of the scale
SkillInputs == {-1, 0, 3, 4, 6, 7, 8, 9, 10, 11}

\* a participant as the dashboard reads it (its six ratings)
Rated(a, b) ==
  [python_skill |-> b, angular_skill |-> a, javascript_skill |-> a,
   html_skill |-> b, css_skill |-> a, java_skill |-> b]

\* the snapshots handed to the dashboard: any ratings in one group of skills,
\* the other group not specified by anybody or rated alike by everybody
Snapshots ==
  UNION {[1..n -> {Rated(a, b) : a \in SkillInputs}] : n \in 0..MaxParticipants, b \in {0, 5}}

RECURSIVE reduce(_)
\* validSkills.reduce((acc, skill) => acc + skill, 0)
reduce(skills) == IF skills = <<>> THEN 0 ELSE Head(skills) + reduce(Tail(skills))

\* participants.map(p => p[skillField]).filter(skill => skill > 0)
validSkills(participants, skillField) ==
  SelectSeq([i \in 1..Len(participants) |-> participants[i][skillField]], LAMBDA skill : skill > 0)

\* Math.round((sum / n) * 10) / 10 for sum > 0, in tenths: Math.round(x) is floor(x + 1/2)
round1(sum, n) == (20 * sum + n) \div (2 * n)

\* mutant: the sum is divided by the number of participants
calculateAverageSkillOverAll(participants, skillField) ==
  LET skills == validSkills(participants, skillField)
  IN  IF Len(skills) = 0 THEN 0 ELSE round1(reduce(skills), Len(participants))

calculateAverageSkill(participants, skillField) ==
  LET skills == validSkills(participants, skillField)
  IN  IF Len(skills) = 0 THEN 0 ELSE round1(reduce(skills), Len(skills))

\* mutant: the medium bucket starts at 3
calculateSkillDistributionOverlapping(participants, skillField) ==
  LET skills == validSkills(participants, skillField)
  IN  [low |-> Len(SelectSeq(skills, LAMBDA skill : skill >= 1 /\ skill <= 3)),
       medium |-> Len(SelectSeq(skills, LAMBDA skill : skill >= 3 /\ skill <= 6)),
       high |-> Len(SelectSeq(skills, LAMBDA skill : skill >= 7 /\ skill <= 10))]

calculateSkillDistribution(participants, skillField) ==
  LET skills == validSkills(participants, skillField)
  IN  [low |-> Len(SelectSeq(skills, LAMBDA skill : skill >= 1 /\ skill <= 3)),
       medium |-> Len(SelectSeq(skills, LAMBDA skill : skill >= 4 /\ skill <= 6)),
       high |-> Len(SelectSeq(skills, LAMBDA skill : skill >= 7 /\ skill <= 10))]

calculateStats(participants) ==
  IF Len(participants) = 0
  THEN [totalCount |-> 0,
        averageSkills |-> [python |-> 0, angular |-> 0, javascript |-> 0,
                           html |-> 0, css |-> 0, java |-> 0],
        skillDistribution |-> [skill \in {} |-> 0]]
  ELSE [totalCount |-> Len(participants),
        averageSkills |->
          [python |-> calculateAverageSkill(participants, "python_skill"),
           angular |-> calculateAverageSkill(participants, "angular_skill"),
           javascript |-> calculateAverageSkill(participants, "javascript_skill"),
           html |-> calculateAverageSkill(participants, "html_skill"),
           css |-> calculateAverageSkill(participants, "css_skill"),
           java |-> calculateAverageSkill(participants, "java_skill")],
        skillDistribution |->
          [skill \in SkillType |-> calculateSkillDistribution(participants, skill)]]

\* the dashboard with some snapshot in the service, nothing computed yet
InitDashboard ==
  /\ participantsSignal \in Snapshots
  /\ ServiceUnused
  /\ DashboardIdle
  /\ ClientIdle
  /\ ErrorsIdle
  /\ variant = "feature"
  /\ ListViewIdle
  /\ AuditIdle
  /\ FormIdle

\* stats = computed(() => this.calculateStats(this.participants())), read
readStats ==
  /\ stats' = Some(calculateStats(participantsSignal))
  /\ UNCHANGED <<participantsSignal, service, distribution, legacyStats, offDashboard>>

\* one call of calculateSkillDistribution on the snapshot
distributionOf(skillField) ==
  /\ distribution' = Some([skill |-> skillField,
                           counts |-> calculateSkillDistribution(participantsSignal, skillField)])
  /\ UNCHANGED <<participantsSignal, service, stats, legacyStats, offDashboard>>

\* a quotient of two numbers, kept exact
Quotient(sum, total) == [sum |-> sum, total |-> total]

RECURSIVE sumOf(_, _)
\* this.participants.reduce((sum, p) => sum + (p[skillField] || 0), 0)
sumOf(participants, skillField) ==
  IF participants = <<>> THEN 0
  ELSE Head(participants)[skillField] + sumOf(Tail(participants), skillField)

\* computeStats of the legacy dashboard, on its participants
computeStats(participants) ==
  LET total == Len(participants)
  IN  IF total = 0
      THEN [totalParticipants |-> 0,
            avgPythonSkill |-> Quotient(0, 1),
            avgAngularSkill |-> Quotient(0, 1),
            avgJavaScriptSkill |-> Quotient(0, 1),
            avgHtmlSkill |-> Quotient(0, 1),
            avgCssSkill |-> Quotient(0, 1),
            avgJavaSkill |-> Quotient(0, 1)]
      ELSE [totalParticipants |-> total,
            avgPythonSkill |-> Quotient(sumOf(participants, "python_skill"), total),
            avgAngularSkill |-> Quotient(sumOf(participants, "angular_skill"), total),
            avgJavaScriptSkill |-> Quotient(sumOf(participants, "javascript_skill"), total),
            avgHtmlSkill |-> Quotient(sumOf(participants, "html_skill"), total),
            avgCssSkill |-> Quotient(sumOf(participants, "css_skill"), total),
            avgJavaSkill |-> Quotient(sumOf(participants, "java_skill"), total)]

\* next of loadDashboardData in the legacy dashboard: computeStats()
legacyComputeStats ==
  /\ legacyStats' = Some(computeStats(participantsSignal))
  /\ UNCHANGED <<participantsSignal, service, stats, distribution, offDashboard>>

NextDashboard ==
  \/ readStats
  \/ \E skillField \in SkillType : distributionOf(skillField)
  \/ legacyComputeStats

SpecDashboard == InitDashboard /\ [][NextDashboard]_vars

\* ------------------------------------------------------ dashboard claims
\* the field of averageSkills that holds the average of a skill
AverageKey ==
  [python_skill |-> "python", angular_skill |-> "angular", javascript_skill |-> "javascript",
   html_skill |-> "html", css_skill |-> "css", java_skill |-> "java"]
\* the participants (by position) who have specified a skill
Specified(skill) == {i \in 1..Len(participantsSignal) : participantsSignal[i][skill] > 0}
\* the ratings of one skill, in snapshot order
Ratings(skill) == [i \in 1..Len(participantsSignal) |-> participantsSignal[i][skill]]
RECURSIVE Total(_, _)
\* the sum of a skill's ratings over a set of participants
Total(who, skill) ==
  IF who = {} THEN 0
  ELSE LET i == CHOOSE j \in who : TRUE
       IN  participantsSignal[i][skill] + Total(who \ {i}, skill)
Abs(x) == IF x < 0 THEN 0 - x ELSE x
\* every rating of the snapshot is on the scale
OnScale == \A i \in 1..Len(participantsSignal), skill \in SkillType :
             participantsSignal[i][skill] \in 0..10

\* C11: for every snapshot and each skill the average is the mean of the
\* ratings greater than 0 rounded to one decimal place (no tenth is nearer
\* to the mean), and 0 when nobody has a rating greater than 0; the empty
\* snapshot gives total 0 and averages 0; angular ratings [0,8] give 8 and
\* [0,4,9] give 6.5 (averages are in tenths)
C11_AverageOfSpecified ==
  stats # Null =>
    /\ stats[1].totalCount = Len(participantsSignal)
    /\ \A skill \in SkillType :
         LET average == stats[1].averageSkills[AverageKey[skill]]
             n == Cardinality(Specified(skill))
         IN  IF n = 0 THEN average = 0
             ELSE 2 * Abs(10 * Total(Specified(skill), skill) - average * n) <= n
    /\ Ratings("angular_skill") = <<0, 8>> => stats[1].averageSkills.angular = 80
    /\ Ratings("angular_skill") = <<0, 4, 9>> => stats[1].averageSkills.angular = 65

C11_Witness ==
  /\ stats # Null
  /\ Ratings("angular_skill") = <<0, 4, 9>>
  /\ stats[1].averageSkills.angular = 65
  /\ stats[1].averageSkills.python = 0

\* the buckets whose range holds a rating
BucketsOf(rating) ==
  {bucket \in {"low", "medium", "high"} :
     \/ bucket = "low" /\ rating \in 1..3
     \/ bucket = "medium" /\ rating \in 4..6
     \/ bucket = "high" /\ rating \in 7..10}
\* counts are the bucket counts of a skill in the current snapshot
Partitioned(counts, skill) ==
  /\ \A i \in Specified(skill) : Cardinality(BucketsOf(participantsSignal[i][skill])) = 1
  /\ \A i \in (1..Len(participantsSignal)) \ Specified(skill) :
       BucketsOf(participantsSignal[i][skill]) = {}
  /\ \A bucket \in {"low", "medium", "high"} :
       counts[bucket] =
         Cardinality({i \in Specified(skill) : bucket \in BucketsOf(participantsSignal[i][skill])})
  /\ counts.low + counts.medium + counts.high = Cardinality(Specified(skill))

\* C12: for every snapshot (ratings on the scale 0..10) and each skill, the
\* Low, Medium and High buckets are disjoint and exhaustive over the
\* participants who specified the skill: each of them is counted in exactly
\* one bucket, the others in none, and the three counts add up to their number
C12_BucketsPartition ==
  OnScale =>
    /\ distribution # Null => Partitioned(distribution[1].counts, distribution[1].skill)
    /\ stats # Null =>
         \A skill \in DOMAIN stats[1].skillDistribution :
           Partitioned(stats[1].skillDistribution[skill], skill)

C12_Witness ==
  /\ OnScale
  /\ distribution # Null
  /\ distribution[1].skill = "angular_skill"
  /\ distribution[1].counts = [low |-> 1, medium |-> 1, high |-> 1]
  /\ Ratings("angular_skill") = <<3, 4, 10>>

\* C13: for every snapshot, the empty one included, the Statistics hold a
\* Low/Medium/High count for each of the six skills
C13_BucketsForEverySkill ==
  stats # Null =>
    \A skill \in SkillType :
      /\ skill \in DOMAIN stats[1].skillDistribution
      /\ \A bucket \in {"low", "medium", "high"} : stats[1].skillDistribution[skill][bucket] \in Nat

\* C14: a snapshot with a rating outside 0..10 yields no Statistics
C14_OffScaleRejected == ~OnScale => stats = Null

\* the field of the legacy stats that holds the average of a skill
LegacyKey ==
  [python_skill |-> "avgPythonSkill", angular_skill |-> "avgAngularSkill",
   javascript_skill |-> "avgJavaScriptSkill", html_skill |-> "avgHtmlSkill",
   css_skill |-> "avgCssSkill", java_skill |-> "avgJavaSkill"]

\* C22: the legacy dashboard's average of each skill is the mean of the
\* ratings greater than 0 only: participants who did not specify the skill
\* do not lower it
C22_LegacyAverageOfSpecified ==
  (legacyStats # Null /\ OnScale) =>
    \A skill \in SkillType :
      LET average == legacyStats[1][LegacyKey[skill]]
          n == Cardinality(Specified(skill))
      IN  n > 0 => average.sum * n = Total(Specified(skill), skill) * average.total

\* =========================================================== HTTP client
\* The requests ParticipantsService hands to HttpClient and the interceptor
\* every request passes on its way out: authInterceptor where the client is
\* provided withInterceptors, AuthInterceptor where HTTP_INTERCEPTORS is used.

\* the configurations the application may be built with
Environments ==
  {Environment(apiBaseUrl, apiKeyHeaderName, apiKeyValue) :
     apiBaseUrl \in {"/api", "https://api.example.com/v1"},
     apiKeyHeaderName \in {"X-API-KEY", "Authorization"},
     apiKeyValue \in {"secret", "other-secret"}}

\* String.prototype.includes
includes(string, searchString) ==
  \E i \in 0..(Len(string) - Len(searchString)) :
    SubSeq(string, i + 1, i + Len(searchString)) = searchString

\* an HttpRequest as HttpClient builds it; by tells who made it
HttpRequest(by, method, url) == [by |-> by, method |-> method, url |-> url, headers |-> <<>>]

\* private readonly apiUrl = `${environment.apiBaseUrl}/participants`
apiUrl == environment.apiBaseUrl \o "/participants"

\* the request of each service method
requestOf(kind, id) ==
  CASE kind = "list" -> HttpRequest(kind, "GET", apiUrl)
    [] kind = "get" -> HttpRequest(kind, "GET", apiUrl \o "/" \o ToString(id))
    [] kind = "create" -> HttpRequest(kind, "POST", apiUrl)
    [] kind = "update" -> HttpRequest(kind, "PUT", apiUrl \o "/" \o ToString(id))
    [] kind = "remove" -> HttpRequest(kind, "DELETE", apiUrl \o "/" \o ToString(id))

\* req.clone({setHeaders}): the given headers are set, the others kept
clone(req, setHeaders) ==
  [req EXCEPT !.headers =
     [name \in DOMAIN req.headers \cup DOMAIN setHeaders |->
        IF name \in DOMAIN setHeaders THEN setHeaders[name] ELSE req.headers[name]]]

\* { 'Content-Type': ..., 'Accept': ..., [apiKeyHeaderName]: apiKeyValue }
authHeaders ==
  [name \in {"Content-Type", "Accept", environment.apiKeyHeaderName} |->
     IF name = environment.apiKeyHeaderName THEN environment.apiKeyValue ELSE "application/json"]

InitClient ==
  /\ participantsSignal = <<>>
  /\ ServiceUnused
  /\ DashboardIdle
  /\ environment \in Environments
  /\ request = Null
  /\ forwarded = Null
  /\ ErrorsIdle
  /\ variant = "feature"
  /\ ListViewIdle
  /\ AuditIdle
  /\ FormIdle

\* a service method hands its request to HttpClient
httpCall(kind, id) ==
  /\ request' = Some(requestOf(kind, id))
  /\ forwarded' = Null
  /\ UNCHANGED <<participantsSignal, service, offClient, environment>>

\* the application loads one of its own files
assetCall ==
  /\ request' = Some(HttpRequest("asset", "GET", "assets/icons.svg"))
  /\ forwarded' = Null
  /\ UNCHANGED <<participantsSignal, service, offClient, environment>>

\* mutant: only the base URL itself is taken for an API request
authInterceptorExactUrl ==
  /\ request # Null
  /\ forwarded = Null
  /\ forwarded' = IF request[1].url = environment.apiBaseUrl
                  THEN Some(clone(request[1], authHeaders))
                  ELSE request
  /\ UNCHANGED <<participantsSignal, service, offClient, environment, request>>

\* the functional interceptor
authInterceptor ==
  /\ request # Null
  /\ forwarded = Null
  /\ forwarded' = IF includes(request[1].url, environment.apiBaseUrl)
                  THEN Some(clone(request[1], authHeaders))
                  ELSE request
  /\ UNCHANGED <<participantsSignal, service, offClient, environment, request>>

\* AuthInterceptor.intercept, the class interceptor
intercept ==
  /\ request # Null
  /\ forwarded = Null
  /\ forwarded' = Some(clone(request[1], authHeaders))
  /\ UNCHANGED <<participantsSignal, service, offClient, environment, request>>

NextClient ==
  \/ httpCall("list", 0)
  \/ \E id \in Ids : httpCall("get", id)
  \/ httpCall("create", 0)
  \/ \E id \in Ids : httpCall("update", id)
  \/ \E id \in Ids : httpCall("remove", id)
  \/ assetCall
  \/ authInterceptor
  \/ intercept

SpecClient == InitClient /\ [][NextClient]_vars

\* ---------------------------------------------------- HTTP client claims
\* C15: every request of the Directory (list, get, create, update, remove)
\* goes out with Content-Type: application/json, Accept: application/json and
\* the configured API-key header holding the configured value
C15_RequestsCarryHeaders ==
  (forwarded # Null /\ forwarded[1].by # "asset") =>
    LET headers == forwarded[1].headers
    IN  /\ {"Content-Type", "Accept", environment.apiKeyHeaderName} \subseteq DOMAIN headers
        /\ headers["Content-Type"] = "application/json"
        /\ headers["Accept"] = "application/json"
        /\ headers[environment.apiKeyHeaderName] = environment.apiKeyValue
        /\ forwarded[1].method = request[1].method
        /\ forwarded[1].url = request[1].url

C15_Witness ==
  /\ forwarded # Null
  /\ forwarded[1].by = "update"
  /\ environment.apiKeyHeaderName = "Authorization"
  /\ forwarded[1].url = "https://api.example.com/v1/participants/2"
  /\ forwarded[1].headers["Authorization"] = "other-secret"

\* ======================================================= error reporting
\* What a failed call ends with: the Error handleError builds from the
\* HttpErrorResponse, in the signal-based service (whose catchError also sets
\* the signals) and in the legacy service (catchError(this.handleError)).

\* mutant: 404 is reported with the message of 403
handleErrorLegacyNotFoundAsForbidden(error) ==
  IF error.event THEN "Error: " \o error.bodyMessage
  ELSE CASE error.status = 400 -> "Bad request. Please check your input."
         [] error.status = 401 -> "Unauthorized. Please check your API key."
         [] error.status = 403 -> "Forbidden. You do not have permission to perform this action."
         [] error.status = 404 -> "Forbidden. You do not have permission to perform this action."
         [] error.status = 422 -> "Validation error. Please check your input."
         [] error.status = 500 -> "Internal server error. Please try again later."
         [] OTHER -> "Error Code: " \o ToString(error.status) \o "\nMessage: " \o error.message

\* handleError of the legacy service
handleErrorLegacy(error) ==
  IF error.event THEN "Error: " \o error.bodyMessage
  ELSE CASE error.status = 400 -> "Bad request. Please check your input."
         [] error.status = 401 -> "Unauthorized. Please check your API key."
         [] error.status = 403 -> "Forbidden. You do not have permission to perform this action."
         [] error.status = 404 -> "Participant not found."
         [] error.status = 422 -> "Validation error. Please check your input."
         [] error.status = 500 -> "Internal server error. Please try again later."
         [] OTHER -> "Error Code: " \o ToString(error.status) \o "\nMessage: " \o error.message

\* the service methods
Kinds == {"list", "get", "create", "update", "remove"}

\* the statuses a response may carry
Statuses == {400, 401, 403, 404, 418, 422, 500, 502, 503, 599}

\* the failures handed to catchError: a transport failure, or a response
\* with an error status, with or without a body message and an errors map
ErrorInputs ==
  TransportFailures \cup
  {HttpErrorResponse(FALSE, status, errs, bodyMessage, "Http failure response: " \o ToString(status)) :
     status \in Statuses,
     errs \in {Null, <<ValidationErrors>>},
     bodyMessage \in {"", "The given data was invalid."}}

\* a call is in flight, with some snapshot in the service
InitErrors ==
  /\ participantsSignal \in
       {<<>>, <<Participant(1, 1)>>, <<Participant(1, 1), Participant(2, 2)>>}
  /\ loadingSignal = TRUE
  /\ errorSignal = Null
  /\ server = <<>>
  /\ nextId = 1
  /\ inflight = {}
  /\ issued = 1
  /\ log = <<>>
  /\ before = Unobserved
  /\ last = "init"
  /\ DashboardIdle
  /\ ClientIdle
  /\ thrown = Null
  /\ variant = "feature"
  /\ ListViewIdle
  /\ AuditIdle
  /\ FormIdle

Thrown(by, kind, error, message) ==
  [service |-> by, kind |-> kind, error |-> error, message |-> message]

\* the catchError of a method of the signal-based service
rethrow(kind, text, error) ==
  /\ thrown = Null
  /\ setLoading(FALSE)
  /\ setError(Some(text))
  /\ thrown' = Some(Thrown("signals", kind, error, handleError(error)))
  /\ before' = signals
  /\ last' = "resolve"
  /\ UNCHANGED <<participantsSignal, server, nextId, inflight, issued, log, offErrors>>

\* the catchError of a method of the legacy service
rethrowLegacy(kind, error) ==
  /\ thrown = Null
  /\ thrown' = Some(Thrown("legacy", kind, error, handleErrorLegacy(error)))
  /\ before' = signals
  /\ last' = "resolve"
  /\ UNCHANGED <<participantsSignal, loadingSignal, errorSignal, server, nextId, inflight,
                 issued, log, offErrors>>

NextErrors ==
  \/ \E kind \in Kinds, error \in ErrorInputs : rethrow(kind, FailureText[kind], error)
  \/ \E kind \in Kinds, error \in ErrorInputs : rethrowLegacy(kind, error)

SpecErrors == InitErrors /\ [][NextErrors]_vars

\* ------------------------------------------------ error reporting claims
StartsWith(string, prefix) ==
  Len(string) >= Len(prefix) /\ SubSeq(string, 1, Len(prefix)) = prefix

\* the class a surfaced message belongs to
ClassOf(message) ==
  CASE message = "Unauthorized. Please check your API key." -> "Unauthorized"
    [] message = "Forbidden. You do not have permission to perform this action." -> "Forbidden"
    [] message \in {"Resource not found.", "Participant not found."} -> "NotFound"
    [] StartsWith(message, "Validation error") -> "ValidationError"
    [] message \in {"Server error. Please try again later.",
                    "Internal server error. Please try again later."} -> "ServerError"
    [] StartsWith(message, "Error: ") -> "NetworkError"
    [] StartsWith(message, "Error ") -> "UnknownError"
    [] OTHER -> "Other"

\* a call has failed with a response of the server
Answered == thrown # Null /\ ~thrown[1].error.event /\ thrown[1].error.status # 0
\* a call has failed without any response
Unanswered == thrown # Null /\ thrown[1].error \in TransportFailures

\* C16: whatever the operation (and whatever else the response holds), 401
\* is surfaced as Unauthorized, 403 as Forbidden, 404 as NotFound and 422 as
\* ValidationError, four classes with no message in common
C16_ClassByStatus ==
  Answered =>
    LET status == thrown[1].error.status
        class == ClassOf(thrown[1].message)
    IN  /\ status = 401 => class = "Unauthorized"
        /\ status = 403 => class = "Forbidden"
        /\ status = 404 => class = "NotFound"
        /\ status = 422 => class = "ValidationError"
        /\ class \in {"Unauthorized", "Forbidden", "NotFound", "ValidationError"}
             => status \in {401, 403, 404, 422}

C16_Witness ==
  /\ Answered
  /\ thrown[1].service = "legacy"
  /\ thrown[1].kind = "remove"
  /\ thrown[1].error.status = 404
  /\ thrown[1].error.bodyMessage # ""
  /\ thrown[1].message = "Participant not found."

\* C17: every status in 500..599 is surfaced as ServerError, and only the
\* statuses other than 401, 403, 404, 422 and 5xx end in UnknownError
C17_ServerErrorFor5xx ==
  Answered =>
    LET status == thrown[1].error.status
        class == ClassOf(thrown[1].message)
    IN  /\ status \in 500..599 => class = "ServerError"
        /\ class = "UnknownError" => status \notin ({401, 403, 404, 422} \cup 500..599)

\* C18: a call of the signal-based service that fails without a response is
\* reported as NetworkError, not as UnknownError, and leaves the snapshot as
\* it was
C18_TransportFailureIsNetworkError ==
  (Unanswered /\ thrown[1].service = "signals") =>
    /\ ClassOf(thrown[1].message) = "NetworkError"
    /\ participantsSignal = before.participants

\* C19: when create or update fails with 422, the surfaced message holds
\* every per-field message of the errors map the server supplied, and is the
\* generic validation message when it supplied none
C19_FieldMessagesSurfaced ==
  (Answered /\ thrown[1].error.status = 422 /\ thrown[1].kind \in {"create", "update"}) =>
    IF thrown[1].error.errors # Null
    THEN LET messages == flat(thrown[1].error.errors[1])
         IN  \A i \in 1..Len(messages) : includes(thrown[1].message, messages[i])
    ELSE thrown[1].message = "Validation error. Please check your input."

\* ============================================================= list view
\* ParticipantsListComponent of the participants feature on top of the
\* service: every step of the component is a call of the service or one of
\* its completion handlers together with what the component does around it.

\* the fields the search looks at, for the records of this model
name(p) == IF p.v = 1 THEN "Ann Lee" ELSE "Bob Ray " \o ToString(p.v)
email(p) == "P" \o ToString(p.id) \o "@Example.org"
github_id(p) == "gh-" \o ToString(p.v)

\* the texts typed into the search field
Queries == {"", " LEE ", "zz"}

UpperCase == "ABCDEFGHIJKLMNOPQRSTUVWXYZ"
LowerCase == "abcdefghijklmnopqrstuvwxyz"

RECURSIVE toLowerCase(_)
\* String.prototype.toLowerCase
toLowerCase(string) ==
  IF string = "" THEN ""
  ELSE LET c == SubSeq(string, 1, 1)
           lower == IF \E i \in 1..26 : SubSeq(UpperCase, i, i) = c
                    THEN LET i == CHOOSE j \in 1..26 : SubSeq(UpperCase, j, j) = c
                         IN  SubSeq(LowerCase, i, i)
                    ELSE c
       IN  lower \o toLowerCase(SubSeq(string, 2, Len(string)))

RECURSIVE trim(_)
\* String.prototype.trim
trim(string) ==
  IF string = "" THEN ""
  ELSE IF SubSeq(string, 1, 1) = " " THEN trim(SubSeq(string, 2, Len(string)))
  ELSE IF SubSeq(string, Len(string), Len(string)) = " "
       THEN trim(SubSeq(string, 1, Len(string) - 1))
  ELSE string

\* mutant: the github_id of a participant is not searched
filteredParticipantsWithoutGithub(text, participants) ==
  LET query == trim(toLowerCase(text))
  IN  IF query = "" THEN participants
      ELSE SelectSeq(participants,
                     LAMBDA participant :
                       \/ includes(toLowerCase(name(participant)), query)
                       \/ includes(toLowerCase(email(participant)), query))

\* the computed signal filteredParticipants for a search text and a snapshot
filteredParticipants(text, participants) ==
  LET query == trim(toLowerCase(text))
  IN  IF query = "" THEN participants
      ELSE SelectSeq(participants,
                     LAMBDA participant :
                       \/ includes(toLowerCase(name(participant)), query)
                       \/ includes(toLowerCase(email(participant)), query)
                       \/ includes(toLowerCase(github_id(participant)), query))

\* the component as constructed; the remote API holds two records
InitListView ==
  /\ participantsSignal = <<>>
  /\ loadingSignal = FALSE
  /\ errorSignal = Null
  /\ server = <<Participant(1, 1), Participant(2, 2)>>
  /\ nextId = 3
  /\ inflight = {}
  /\ issued = 0
  /\ log = <<>>
  /\ before = Unobserved
  /\ last = "init"
  /\ DashboardIdle
  /\ ClientIdle
  /\ ErrorsIdle
  /\ variant \in {"feature", "legacy"}
  /\ ListViewIdle
  /\ AuditIdle
  /\ FormIdle

\* the value afterClosed delivers: true (confirm), false (cancel), or
\* undefined (the dialog dismissed otherwise)
DialogResults == {Some(TRUE), Some(FALSE), Null}
\* if (result)
truthy(value) == value # Null /\ value[1]

\* --------------------------------------------- the feature list view
\* ngOnInit: loadParticipants(), then the table is given the filtered snapshot
ngOnInit ==
  /\ variant = "feature"
  /\ last = "init"
  /\ list
  /\ dataSource' = filteredParticipants(searchQuery, participantsSignal)
  /\ UNCHANGED <<searchQuery, loaded, variant, dialog, result, isLoading, errorMessage,
                 followUp, offListView>>

\* refresh(): participantsService.refresh()
listViewRefresh ==
  /\ variant = "feature"
  /\ last # "init"
  /\ dialog = Null
  /\ refresh
  /\ UNCHANGED <<listView, offListView>>

\* onSearchChange(query): searchQuery.set(query); updateDataSource()
onSearchChange(query) ==
  /\ variant = "feature"
  /\ last # "init"
  /\ dialog = Null
  /\ searchQuery' = query
  /\ dataSource' = filteredParticipants(query, participantsSignal)
  /\ observe("search")
  /\ UNCHANGED <<participantsSignal, loadingSignal, errorSignal, server, nextId, inflight,
                 issued, loaded, variant, dialog, result, isLoading, errorMessage, followUp,
                 offListView>>

\* clearSearch()
clearSearch == onSearchChange("")

\* deleteParticipant(participant) on a row of the table: the dialog opens
deleteParticipant(participant) ==
  /\ variant = "feature"
  /\ last # "init"
  /\ dialog = Null
  /\ dialog' = Some(participant)
  /\ observe("dialog")
  /\ UNCHANGED <<participantsSignal, loadingSignal, errorSignal, server, nextId, inflight,
                 issued, searchQuery, dataSource, loaded, variant, result, isLoading,
                 errorMessage, followUp, offListView>>

\* the dialog closes and nothing is asked of the service
dismissed(value) ==
  /\ dialog' = Null
  /\ result' = value
  /\ observe("dialog")
  /\ UNCHANGED <<participantsSignal, loadingSignal, errorSignal, server, nextId, inflight,
                 issued, searchQuery, dataSource, loaded, variant, isLoading, errorMessage,
                 followUp, offListView>>

\* mutant: the result of the dialog is not looked at
deleteParticipantClosedUnchecked(value) ==
  /\ variant = "feature"
  /\ dialog # Null
  /\ remove(dialog[1].id)
  /\ dialog' = Null
  /\ result' = value
  /\ UNCHANGED <<searchQuery, dataSource, loaded, variant, isLoading, errorMessage,
                 followUp, offListView>>

\* dialogRef.afterClosed() of deleteParticipant: if (result) remove(participant.id)
deleteParticipantClosed(value) ==
  /\ variant = "feature"
  /\ dialog # Null
  /\ IF truthy(value)
     THEN /\ remove(dialog[1].id)
          /\ dialog' = Null
          /\ result' = value
          /\ UNCHANGED <<searchQuery, dataSource, loaded, variant, isLoading, errorMessage,
                         followUp, offListView>>
     ELSE dismissed(value)

\* a request of the component on its way
listViewServer(o) == Server(o) /\ UNCHANGED <<listView, offListView>>

\* list() or refresh() succeeds: the service's tap, then next (a notification)
listViewLoaded(o) ==
  /\ variant = "feature"
  /\ listTap(o)
  /\ loaded' = Some(o.body)
  /\ UNCHANGED <<searchQuery, dataSource, variant, dialog, result, isLoading, errorMessage,
                 followUp, offListView>>

\* list() or refresh() fails: the service's catchError, then error (a notification)
listViewLoadFailed(o) ==
  /\ variant = "feature"
  /\ listCatchError(o)
  /\ UNCHANGED <<listView, offListView>>

\* remove() succeeds: the service's tap, then next (updateDataSource())
listViewDeleted(o) ==
  /\ variant = "feature"
  /\ removeTap(o)
  /\ dataSource' = filteredParticipants(searchQuery, participantsSignal')
  /\ loaded' = Null
  /\ UNCHANGED <<searchQuery, variant, dialog, result, isLoading, errorMessage, followUp,
                 offListView>>

\* remove() fails: the service's catchError, then error (a notification)
listViewDeleteFailed(o) ==
  /\ variant = "feature"
  /\ removeCatchError(o)
  /\ UNCHANGED <<listView, offListView>>

\* ---------------------------------------------- the legacy list view
\* ParticipantsListComponent over the legacy service, which keeps no snapshot
\* and no signals: a call only sends its request.
legacySend(kind, id) ==
  /\ issued < MaxOps
  /\ inflight' = inflight \cup {Request(kind, id, 0)}
  /\ issued' = issued + 1
  /\ observe("issue")
  /\ UNCHANGED <<participantsSignal, loadingSignal, errorSignal, server, nextId>>

\* loadParticipants(): isLoading = true; errorMessage = ''; list() subscribed
loadParticipants ==
  /\ isLoading' = TRUE
  /\ errorMessage' = ""
  /\ legacySend("list", 0)

\* ngOnInit of the legacy list view
legacyNgOnInit ==
  /\ variant = "legacy"
  /\ last = "init"
  /\ loadParticipants
  /\ UNCHANGED <<searchQuery, dataSource, loaded, variant, dialog, result, followUp, offListView>>

\* applyFilter(event): dataSource.filter = filterValue.trim().toLowerCase()
applyFilter(filterValue) ==
  /\ variant = "legacy"
  /\ last # "init"
  /\ dialog = Null
  /\ searchQuery' = toLowerCase(trim(filterValue))
  /\ observe("search")
  /\ UNCHANGED <<participantsSignal, loadingSignal, errorSignal, server, nextId, inflight,
                 issued, dataSource, loaded, variant, dialog, result, isLoading, errorMessage,
                 followUp, offListView>>

\* confirmDelete(participant) on a row of the table: the dialog opens
confirmDelete(participant) ==
  /\ variant = "legacy"
  /\ last # "init"
  /\ dialog = Null
  /\ dialog' = Some(participant)
  /\ observe("dialog")
  /\ UNCHANGED <<participantsSignal, loadingSignal, errorSignal, server, nextId, inflight,
                 issued, searchQuery, dataSource, loaded, variant, result, isLoading,
                 errorMessage, followUp, offListView>>

\* dialogRef.afterClosed() of confirmDelete:
\* if (result && participant.id) deleteParticipant(participant.id), which
\* subscribes remove(id); a delete is started only with room left for the
\* reload that follows it
confirmDeleteClosed(value) ==
  /\ variant = "legacy"
  /\ dialog # Null
  /\ IF truthy(value) /\ dialog[1].id # 0
     THEN /\ issued + 1 < MaxOps
          /\ legacySend("remove", dialog[1].id)
          /\ dialog' = Null
          /\ result' = value
          /\ UNCHANGED <<searchQuery, dataSource, loaded, variant, isLoading, errorMessage,
                         followUp, offListView>>
     ELSE dismissed(value)

\* the pipe of a legacy service method ends: nothing but the subscriber runs
legacyResolved(o, ok, value, message) ==
  /\ resolved(o, ok, value, message)
  /\ UNCHANGED <<participantsSignal, loadingSignal, errorSignal>>

\* next of loadParticipants: dataSource.data = participants; isLoading = false
legacyLoaded(o) ==
  /\ variant = "legacy"
  /\ o.kind = "list" /\ o.phase = "ok"
  /\ legacyResolved(o, TRUE, o.body, "")
  /\ dataSource' = o.body
  /\ isLoading' = FALSE
  /\ loaded' = Some(o.body)
  /\ UNCHANGED <<searchQuery, variant, dialog, result, errorMessage, followUp, offListView>>

\* error of loadParticipants: errorMessage = error.message; isLoading = false
legacyLoadFailed(o) ==
  /\ variant = "legacy"
  /\ o.kind = "list" /\ o.phase = "failed"
  /\ \E error \in Failures(o.kind) :
       /\ legacyResolved(o, FALSE, <<>>, handleErrorLegacy(error))
       /\ errorMessage' = handleErrorLegacy(error)
  /\ isLoading' = FALSE
  /\ UNCHANGED <<searchQuery, dataSource, loaded, variant, dialog, result, followUp, offListView>>

\* next of deleteParticipant: a notification, then loadParticipants()
legacyDeleted(o) ==
  /\ variant = "legacy"
  /\ o.kind = "remove" /\ o.phase = "ok"
  /\ inflight' = (inflight \ {o}) \cup {Request("list", 0, 0)}
  /\ issued' = issued + 1
  /\ log' = lastTwo(log \o <<Resolution(o, TRUE, <<>>, "")>>)
  /\ before' = signals
  /\ last' = "resolve"
  /\ isLoading' = TRUE
  /\ errorMessage' = ""
  /\ loaded' = Null
  /\ followUp' = Some([n |-> issued + 1, id |-> o.id])
  /\ UNCHANGED <<participantsSignal, loadingSignal, errorSignal, server, nextId, searchQuery,
                 dataSource, variant, dialog, result, offListView>>

\* error of deleteParticipant: a notification
legacyDeleteFailed(o) ==
  /\ variant = "legacy"
  /\ o.kind = "remove" /\ o.phase = "failed"
  /\ \E error \in Failures(o.kind) : legacyResolved(o, FALSE, <<>>, handleErrorLegacy(error))
  /\ UNCHANGED <<listView, offListView>>

\* the rows the table shows: the feature list view hands the table the
\* filtered records; the legacy table filters dataSource.data itself, with
\* the given filterPredicate, unless dataSource.filter is empty
rows ==
  IF variant = "feature" \/ searchQuery = "" THEN dataSource
  ELSE SelectSeq(dataSource,
                 LAMBDA data :
                   includes(toLowerCase(name(data) \o " " \o email(data) \o " " \o github_id(data)),
                            searchQuery))

NextListView ==
  \/ ngOnInit
  \/ listViewRefresh
  \/ \E query \in Queries : onSearchChange(query)
  \/ clearSearch
  \/ \E i \in 1..Len(dataSource) : deleteParticipant(dataSource[i])
  \/ \E value \in DialogResults : deleteParticipantClosed(value)
  \/ \E o \in inflight : listViewServer(o)
  \/ \E o \in inflight : listViewLoaded(o)
  \/ \E o \in inflight : listViewLoadFailed(o)
  \/ \E o \in inflight : listViewDeleted(o)
  \/ \E o \in inflight : listViewDeleteFailed(o)
  \/ legacyNgOnInit
  \/ \E filterValue \in Queries : applyFilter(filterValue)
  \/ \E i \in 1..Len(rows) : confirmDelete(rows[i])
  \/ \E value \in DialogResults : confirmDeleteClosed(value)
  \/ \E o \in inflight : legacyLoaded(o)
  \/ \E o \in inflight : legacyLoadFailed(o)
  \/ \E o \in inflight : legacyDeleted(o)
  \/ \E o \in inflight : legacyDeleteFailed(o)

SpecListView == InitListView /\ [][NextListView]_vars

\* ------------------------------------------------------ list view claims
\* C20: when a reload or refresh of the list fails after an earlier
\* successful load, the table shows the rows of the last successful load
\* (those of them the search text selects)
C20_FailedReloadKeepsRows ==
  (variant = "feature" /\ Resolved /\ Ev.kind = "list" /\ ~Ev.ok /\ loaded # Null) =>
    dataSource = filteredParticipants(searchQuery, loaded[1])

\* C21: a remove request is issued only by the step that closes the
\* confirmation dialog of that participant with a confirming result, and a
\* dialog closed with cancel or without a result issues no request
C21_RemoveOnlyAfterConfirm ==
  [][/\ \A o \in inflight' :
          (o.kind = "remove" /\ o.n > issued) =>
            /\ dialog # Null /\ dialog[1].id = o.id
            /\ dialog' = Null
            /\ result' = Some(TRUE)
     /\ (dialog # Null /\ dialog' = Null /\ result' # Some(TRUE)) =>
          (inflight' = inflight /\ issued' = issued)]_vars

C21_Witness ==
  /\ variant = "legacy"
  /\ result = Some(TRUE)
  /\ dialog = Null
  /\ \E o \in inflight : o.kind = "remove" /\ o.id = 2 /\ o.phase = "sent"

C28_DeletedRowGone ==
  /\ (variant = "feature" /\ Resolved /\ Ev.kind = "remove" /\ Ev.ok) => ~HasId(rows, Ev.id)
  /\ (variant = "legacy" /\ Resolved /\ Ev.kind = "list" /\ followUp # Null
        /\ Ev.n = followUp[1].n) =>
       ~HasId(rows, followUp[1].id)

\* ---------------------------------------------------------------- search
\* The search of the feature list view on its own: a loaded snapshot, and
\* texts typed into the search field.

\* the texts typed into the search field
SearchQueries == {"", "   ", " LEE ", "bob", "EXAMPLE", "GH-2", "p1@", "ray 2", "zz"}

\* the snapshots the search runs on
SearchSnapshots ==
  UNION {[1..n -> {Participant(1, 1), Participant(1, 2), Participant(2, 2)}] :
           n \in 0..MaxParticipants}

\* the list view with a loaded snapshot and an empty search field
InitSearch ==
  /\ participantsSignal \in SearchSnapshots
  /\ loadingSignal = FALSE
  /\ errorSignal = Null
  /\ server = participantsSignal
  /\ nextId = 3
  /\ inflight = {}
  /\ issued = 0
  /\ log = <<>>
  /\ before = Unobserved
  /\ last = "loaded"
  /\ DashboardIdle
  /\ ClientIdle
  /\ ErrorsIdle
  /\ variant = "feature"
  /\ ListViewIdle
  /\ AuditIdle
  /\ FormIdle

NextSearch ==
  \/ \E query \in SearchQueries : onSearchChange(query)
  \/ clearSearch

SpecSearch == InitSearch /\ [][NextSearch]_vars

\* text occurs in string, at some position
Occurs(text, string) ==
  \E i \in 1..(Len(string) - Len(text) + 1) : SubSeq(string, i, i + Len(text) - 1) = text

\* the query matches the participant: it occurs, letter case apart, in the
\* name, the email or the github_id
Matches(query, participant) ==
  \E field \in {name(participant), email(participant), github_id(participant)} :
    Occurs(toLowerCase(query), toLowerCase(field))

\* the positions of the snapshot whose record the search text matches
Matching(text) ==
  {i \in 1..Len(participantsSignal) : Matches(trim(text), participantsSignal[i])}

\* C23: filteredParticipants returns, in snapshot order, exactly the
\* snapshot records whose name, email or github_id contains the trimmed,
\* lower-cased query, letter case apart; an empty or blank query returns the
\* whole snapshot
C23_SearchSelectsMatches ==
  (variant = "feature" /\ last = "search") =>
    IF trim(searchQuery) = "" THEN dataSource = participantsSignal
    ELSE /\ Len(dataSource) = Cardinality(Matching(searchQuery))
         /\ \A k \in 1..Len(dataSource) :
              \E i \in Matching(searchQuery) :
                /\ Cardinality({j \in Matching(searchQuery) : j < i}) = k - 1
                /\ dataSource[k] = participantsSignal[i]

C23_Witness ==
  /\ last = "search"
  /\ searchQuery = "GH-2"
  /\ Len(participantsSignal) = 3
  /\ Len(dataSource) = 2
  /\ dataSource[1] # dataSource[2]

\* ======================================================= participant form
\* The form that creates and edits a participant, in its two variants: the
\* one of the participants feature, on the signal service, and the legacy
\* one, on the legacy service. A participant's v stands for its field
\* values; of the form's fields the model keeps name and python_skill, and
\* the dto submitted carries python_skill as its v.

MaxSubmits == 2

\* NaN, the result of parsing a text that is not a number
NaN == -1
isNaN(number) == number = NaN
\* if (id), this.isEditMode && this.participantId: a number is truthy
\* unless it is 0 or NaN
truthyNumber(number) == number # 0 /\ number # NaN

\* the digit a character is, or NaN
digitOf(c) ==
  IF \E d \in 0..9 : SubSeq("0123456789", d + 1, d + 1) = c
  THEN CHOOSE d \in 0..9 : SubSeq("0123456789", d + 1, d + 1) = c
  ELSE NaN

RECURSIVE leadingDigits(_)
\* the longest prefix of the string made of digits
leadingDigits(string) ==
  IF string = "" \/ isNaN(digitOf(SubSeq(string, 1, 1))) THEN ""
  ELSE SubSeq(string, 1, 1) \o leadingDigits(SubSeq(string, 2, Len(string)))

RECURSIVE decimal(_)
\* the number a string of digits denotes
decimal(digits) ==
  IF digits = "" THEN 0
  ELSE 10 * decimal(SubSeq(digits, 1, Len(digits) - 1))
         + digitOf(SubSeq(digits, Len(digits), Len(digits)))

\* parseInt(string, 10) of a text without sign or leading blanks
parseInt(string) ==
  IF leadingDigits(string) = "" THEN NaN ELSE decimal(leadingDigits(string))

\* +string of a non-empty text without sign, blanks or point
Number(string) ==
  IF leadingDigits(string) = string THEN decimal(string) ELSE NaN

\* the id parameters the form is opened with: none (the route "new"), or
\* the text of the path segment
RouteIds == {Null, Some("new"), Some("0"), Some("1"), Some("abc")}

\* participantForm.value
FormValue(text, python_skill) == [name |-> text, python_skill |-> python_skill]

\* what the user types into the form
FormInputs == {FormValue(text, skill) : text \in {"", "Ann Lee"}, skill \in {0, 2, 11}}

\* participantForm.valid, by the validators of the variant
valid(value) ==
  IF variant = "feature"
  THEN /\ Len(value.name) >= 2 /\ Len(value.name) <= 100
       /\ value.python_skill >= 0 /\ value.python_skill <= 10
  ELSE /\ value.name # "" /\ Len(value.name) <= 255
       /\ value.python_skill >= 1 /\ value.python_skill <= 10

\* populateForm(participant) of the feature form
populateForm(participant) == FormValue(name(participant), participant.v)

\* populateForm(participant) of the legacy form: python_skill || 1
legacyPopulateForm(participant) ==
  FormValue(name(participant), IF participant.v = 0 THEN 1 ELSE participant.v)

\* cleanFormData(formData): the ratings are always included
cleanFormData(formData) == formData.python_skill

\* the form as constructed, on a route; the remote API holds two records,
\* one of them with the rating 0 (not specified)
InitForm ==
  /\ participantsSignal = <<>>
  /\ loadingSignal = FALSE
  /\ errorSignal = Null
  /\ server = <<Participant(0, 2), Participant(1, 0)>>
  /\ nextId = 2
  /\ inflight = {}
  /\ issued = 0
  /\ log = <<>>
  /\ before = Unobserved
  /\ last = "init"
  /\ DashboardIdle
  /\ ClientIdle
  /\ ErrorsIdle
  /\ variant \in {"feature", "legacy"}
  /\ ListViewIdle
  /\ AuditIdle
  /\ routeId \in RouteIds
  /\ isEditMode = FALSE
  /\ participantId = Null
  /\ formLoading = FALSE
  /\ isSubmitting = FALSE
  /\ participantForm = IF variant = "legacy" THEN Some(FormValue("", 1)) ELSE Null
  /\ currentParticipant = Null
  /\ navigated = FALSE
  /\ submits = 0
  /\ formErrorMessage = ""

\* if (id && id !== 'new')
editRoute == routeId # Null /\ routeId[1] # "" /\ routeId[1] # "new"

\* ---------------------------------------------------- the feature form
\* ngOnInit(): initializeForm(); checkRouteParams(), which in edit mode
\* calls loadParticipant(participantId)
formNgOnInit ==
  /\ variant = "feature"
  /\ last = "init"
  /\ participantForm' = Some(FormValue("", 0))
  /\ IF editRoute /\ ~isNaN(parseInt(routeId[1]))
     THEN /\ participantId' = Some(parseInt(routeId[1]))
          /\ isEditMode' = TRUE
          /\ formLoading' = TRUE
          /\ get(parseInt(routeId[1]))
     ELSE /\ observe("opened")
          /\ UNCHANGED <<participantsSignal, loadingSignal, errorSignal, server, nextId,
                         inflight, issued, participantId, isEditMode, formLoading>>
  /\ UNCHANGED <<routeId, isSubmitting, currentParticipant, navigated, submits,
                 formErrorMessage, offForm>>

\* the user fills in the fields
formInput(value) ==
  /\ last # "init"
  /\ ~navigated
  /\ participantForm' = Some(value)
  /\ observe("input")
  /\ UNCHANGED <<participantsSignal, loadingSignal, errorSignal, server, nextId, inflight,
                 issued, routeId, isEditMode, participantId, formLoading, isSubmitting,
                 currentParticipant, navigated, submits, formErrorMessage, offForm>>

\* onSubmit() on a form that is not valid: markFormGroupTouched(), a notification
formRejected ==
  /\ last # "init"
  /\ ~navigated
  /\ ~valid(participantForm[1])
  /\ observe("rejected")
  /\ UNCHANGED <<participantsSignal, loadingSignal, errorSignal, server, nextId, inflight,
                 issued, form, offForm>>

\* onSubmit() on a valid form: isLoading.set(true), then
\* updateParticipant(formData), which does nothing without an id, or
\* createParticipant(formData)
onSubmit ==
  /\ variant = "feature"
  /\ last # "init"
  /\ ~navigated
  /\ submits < MaxSubmits
  /\ valid(participantForm[1])
  /\ formLoading' = TRUE
  /\ submits' = submits + 1
  /\ IF isEditMode
     THEN IF participantId # Null /\ truthyNumber(participantId[1])
          THEN update(participantId[1], participantForm[1].python_skill)
          ELSE /\ observe("submit")
               /\ UNCHANGED <<participantsSignal, loadingSignal, errorSignal, server, nextId,
                              inflight, issued>>
     ELSE create(participantForm[1].python_skill)
  /\ UNCHANGED <<routeId, isEditMode, participantId, isSubmitting, participantForm,
                 currentParticipant, navigated, formErrorMessage, offForm>>

\* next of loadParticipant: currentParticipant.set; populateForm; isLoading.set(false)
formLoaded(o) ==
  /\ variant = "feature"
  /\ getTap(o)
  /\ currentParticipant' = Some(o.body[1])
  /\ participantForm' = Some(populateForm(o.body[1]))
  /\ formLoading' = FALSE
  /\ UNCHANGED <<routeId, isEditMode, participantId, isSubmitting, navigated, submits,
                 formErrorMessage, offForm>>

\* error of loadParticipant: a notification; isLoading.set(false); navigate(['/participants'])
formLoadFailed(o) ==
  /\ variant = "feature"
  /\ getCatchError(o)
  /\ formLoading' = FALSE
  /\ navigated' = TRUE
  /\ UNCHANGED <<routeId, isEditMode, participantId, isSubmitting, participantForm,
                 currentParticipant, submits, formErrorMessage, offForm>>

\* next of createParticipant or updateParticipant: a notification;
\* navigate(['/participants']); isLoading.set(false)
formSaved(o) ==
  /\ variant = "feature"
  /\ createTap(o) \/ updateTap(o)
  /\ navigated' = TRUE
  /\ formLoading' = FALSE
  /\ UNCHANGED <<routeId, isEditMode, participantId, isSubmitting, participantForm,
                 currentParticipant, submits, formErrorMessage, offForm>>

\* error of createParticipant or updateParticipant: a notification; isLoading.set(false)
formSaveFailed(o) ==
  /\ variant = "feature"
  /\ createCatchError(o) \/ updateCatchError(o)
  /\ formLoading' = FALSE
  /\ UNCHANGED <<routeId, isEditMode, participantId, isSubmitting, participantForm,
                 currentParticipant, navigated, submits, formErrorMessage, offForm>>

\* ----------------------------------------------------- the legacy form
\* a method of the legacy service that carries data: the http call,
\* subscribed by the caller
legacySendData(kind, id, v) ==
  /\ issued < MaxOps
  /\ inflight' = inflight \cup {Request(kind, id, v)}
  /\ issued' = issued + 1
  /\ observe("issue")
  /\ UNCHANGED <<participantsSignal, loadingSignal, errorSignal, server, nextId>>

\* ngOnInit(): on the route's paramMap, in edit mode isEditMode = true;
\* participantId = +id; loadParticipant(participantId)
legacyFormNgOnInit ==
  /\ variant = "legacy"
  /\ last = "init"
  /\ IF editRoute
     THEN /\ isEditMode' = TRUE
          /\ participantId' = Some(Number(routeId[1]))
          /\ formLoading' = TRUE
          /\ formErrorMessage' = ""
          /\ legacySendData("get", Number(routeId[1]), 0)
     ELSE /\ observe("opened")
          /\ UNCHANGED <<participantsSignal, loadingSignal, errorSignal, server, nextId,
                         inflight, issued, participantId, isEditMode, formLoading,
                         formErrorMessage>>
  /\ UNCHANGED <<routeId, isSubmitting, participantForm, currentParticipant, navigated,
                 submits, offForm>>

\* onSubmit() on a valid form: isSubmitting = true; errorMessage = '';
\* updateParticipant(participantId, cleanFormData(value)) or
\* createParticipant(cleanFormData(value))
legacyOnSubmit ==
  /\ variant = "legacy"
  /\ last # "init"
  /\ ~navigated
  /\ submits < MaxSubmits
  /\ valid(participantForm[1])
  /\ isSubmitting' = TRUE
  /\ formErrorMessage' = ""
  /\ submits' = submits + 1
  /\ IF isEditMode /\ participantId # Null /\ truthyNumber(participantId[1])
     THEN legacySendData("update", participantId[1], cleanFormData(participantForm[1]))
     ELSE legacySendData("create", 0, cleanFormData(participantForm[1]))
  /\ UNCHANGED <<routeId, isEditMode, participantId, formLoading, participantForm,
                 currentParticipant, navigated, offForm>>

\* next of loadParticipant: populateForm(participant); isLoading = false
legacyFormLoaded(o) ==
  /\ variant = "legacy"
  /\ o.kind = "get" /\ o.phase = "ok"
  /\ legacyResolved(o, TRUE, o.body, "")
  /\ currentParticipant' = Some(o.body[1])
  /\ participantForm' = Some(legacyPopulateForm(o.body[1]))
  /\ formLoading' = FALSE
  /\ UNCHANGED <<routeId, isEditMode, participantId, isSubmitting, navigated, submits,
                 formErrorMessage, offForm>>

\* error of loadParticipant: errorMessage = error.message; isLoading = false
legacyFormLoadFailed(o) ==
  /\ variant = "legacy"
  /\ o.kind = "get" /\ o.phase = "failed"
  /\ \E error \in Failures(o.kind) :
       /\ legacyResolved(o, FALSE, <<>>, handleErrorLegacy(error))
       /\ formErrorMessage' = handleErrorLegacy(error)
  /\ formLoading' = FALSE
  /\ UNCHANGED <<routeId, isEditMode, participantId, isSubmitting, participantForm,
                 currentParticipant, navigated, submits, offForm>>

\* next of createParticipant or updateParticipant: isSubmitting = false;
\* a notification; navigate(['/participants'])
legacyFormSaved(o) ==
  /\ variant = "legacy"
  /\ o.kind \in {"create", "update"} /\ o.phase = "ok"
  /\ legacyResolved(o, TRUE, o.body, "")
  /\ isSubmitting' = FALSE
  /\ navigated' = TRUE
  /\ UNCHANGED <<routeId, isEditMode, participantId, formLoading, participantForm,
                 currentParticipant, submits, formErrorMessage, offForm>>

\* error of createParticipant or updateParticipant: isSubmitting = false;
\* errorMessage = error.message
legacyFormSaveFailed(o) ==
  /\ variant = "legacy"
  /\ o.kind \in {"create", "update"} /\ o.phase = "failed"
  /\ \E error \in Failures(o.kind) :
       /\ legacyResolved(o, FALSE, <<>>, handleErrorLegacy(error))
       /\ formErrorMessage' = handleErrorLegacy(error)
  /\ isSubmitting' = FALSE
  /\ UNCHANGED <<routeId, isEditMode, participantId, formLoading, participantForm,
                 currentParticipant, navigated, submits, offForm>>

NextForm ==
  \/ formNgOnInit
  \/ \E value \in FormInputs : formInput(value)
  \/ formRejected
  \/ onSubmit
  \/ \E o \in inflight : Server(o) /\ UNCHANGED <<form, offForm>>
  \/ \E o \in inflight : formLoaded(o)
  \/ \E o \in inflight : formLoadFailed(o)
  \/ \E o \in inflight : formSaved(o)
  \/ \E o \in inflight : formSaveFailed(o)
  \/ legacyFormNgOnInit
  \/ legacyOnSubmit
  \/ \E o \in inflight : legacyFormLoaded(o)
  \/ \E o \in inflight : legacyFormLoadFailed(o)
  \/ \E o \in inflight : legacyFormSaved(o)
  \/ \E o \in inflight : legacyFormSaveFailed(o)

SpecForm == InitForm /\ [][NextForm]_vars

\* -------------------------------------------------- participant form claims
\* the requests the step has issued
Issued == {o \in inflight' : o.n > issued}

\* C24: every valid submit of the form opened on a route with an id other
\* than 'new' issues exactly one update for that id and no create; every
\* valid submit of the form opened without an id or with 'new' issues
\* exactly one create and no update
C24_SubmitFollowsRoute ==
  [][submits' = submits + 1 =>
       /\ Cardinality(Issued) = 1
       /\ \A o \in Issued :
            IF routeId # Null /\ routeId[1] # "new"
            THEN o.kind = "update" /\ ToString(o.id) = routeId[1]
            ELSE o.kind = "create"]_vars

\* C29: the loading flag of the feature form is true only while a request
\* of the form is in flight (so that it has returned to false once the
\* requests have resolved)
C29_LoadingOnlyInFlight ==
  (variant = "feature" /\ formLoading) => inflight # {}

\* C30: submitting the edit form as the loaded participant filled it issues
\* an update of that participant with the loaded values; a rating of 0 is
\* submitted as 0
C30_UnchangedRoundTrip ==
  [][(/\ submits' = submits + 1
      /\ currentParticipant # Null
      /\ participantForm[1] = (IF variant = "feature"
                               THEN populateForm(currentParticipant[1])
                               ELSE legacyPopulateForm(currentParticipant[1]))) =>
       \E o \in Issued :
         /\ o.kind = "update"
         /\ o.id = currentParticipant[1].id
         /\ o.v = currentParticipant[1].v]_vars
====
